---- MODULE Spec2Model ----
(***************************************************************************)
(* Model of the stream reconciliation of ChatBox.jsx: handleSubmit, the    *)
(* read loop over the response body, the functional updaters of the       *)
(* transcript and the React state they are applied to.                     *)
(*                                                                         *)
(* JavaScript strings are sequences of one-character strings.  A value     *)
(* that may be null is a sequence of length at most one: Null is <<>>,     *)
(* Some(v) is <<v>>.                                                       *)
(***************************************************************************)
EXTENDS Integers, Sequences, FiniteSets, TLC

\* Bounds of the exploration: the number of submit events, and the number
\* of chunks the responses deliver in total.
MaxSubmits == 2
MaxChunks == 3

Null == <<>>
Some(v) == <<v>>

----------------------------------------------------------------------------
\* String literals of ChatBox.jsx.

STREAM_ERROR == <<"S","T","R","E","A","M","_","E","R","R","O","R",":">>
EmptyQuestionMessage ==
    <<"P","l","e","a","s","e"," ","e","n","t","e","r"," ","a"," ",
      "q","u","e","s","t","i","o","n",".">>
ServerErrorMessage ==
    <<"S","e","r","v","e","r"," ","r","e","s","p","o","n","d","e","d"," ",
      "w","i","t","h"," ","a","n"," ","e","r","r","o","r">>
UnexpectedErrorMessage ==
    <<"U","n","e","x","p","e","c","t","e","d"," ","e","r","r","o","r"," ",
      "o","c","c","u","r","r","e","d",".">>

----------------------------------------------------------------------------
\* String.prototype functions used by handleSubmit.

IsSpace(c) == c \in {" ", "\t", "\n"}

RECURSIVE trimStart(_)
trimStart(s) ==
    IF s # <<>> /\ IsSpace(Head(s)) THEN trimStart(Tail(s)) ELSE s

RECURSIVE trimEnd(_)
trimEnd(s) ==
    IF s # <<>> /\ IsSpace(s[Len(s)])
    THEN trimEnd(SubSeq(s, 1, Len(s) - 1))
    ELSE s

trimIdentity(s) == s
\* currentQuestion.trim(), chunk.replace(...).trim()
trim(s) == trimEnd(trimStart(s))

\* chunk.startsWith(p)
startsWith(s, p) == Len(s) >= Len(p) /\ SubSeq(s, 1, Len(p)) = p

\* Positions at which p occurs in s.
Occurrences(s, p) ==
    {k \in 1..(Len(s) - Len(p) + 1) : SubSeq(s, k, k + Len(p) - 1) = p}

\* s.replace(p, r) with a string pattern: only the first occurrence.
replace(s, p, r) ==
    IF Occurrences(s, p) = {}
    THEN s
    ELSE LET k == CHOOSE k \in Occurrences(s, p) :
                      \A j \in Occurrences(s, p) : k <= j
         IN SubSeq(s, 1, k - 1) \o r \o SubSeq(s, k + Len(p), Len(s))

----------------------------------------------------------------------------
\* Inputs of the environment.

\* Values the user types into the input field.
Inputs == { <<>>, <<" ", " ">>, <<" ","h","i"," ">> }

\* Decoded chunks a response body delivers: a text, a text with the marker
\* inside it, a text that starts with the marker, and the marker alone.
Chunks ==
    { <<"a">>,
      <<"b", " ">> \o STREAM_ERROR,
      STREAM_ERROR \o <<" ", "x", " ">>,
      STREAM_ERROR }

\* err.message of a rejected fetch or read; <<>> is an empty or missing one.
FailureMessages == { <<"d","o","w","n">>, <<>> }

----------------------------------------------------------------------------
VARIABLES
    messages,               \* useState([]): the transcript, as rendered
    currentQuestion,        \* useState(''): the pending input text
    isLoading,              \* useState(false)
    error,                  \* useState(null): Null or Some(text)
    currentAiMessageIdRef,  \* useRef(null): Null or Some(id)
    nextId,                 \* number of ids generateId has produced
    pending,                \* state updates queued and not yet rendered
    nsub,                   \* number of handleSubmit invocations so far
    pc,                     \* position of each invocation of handleSubmit
    chunks,                 \* chunks each invocation has decoded, in order
    outcome,                \* how each invocation ended
    base,                   \* transcript right after each submit event
    failure,                \* err.message of the failure that ended each
    status,                 \* response.ok of the response each one received
    requests,               \* number of fetch calls issued
    readers                 \* number of read loops each invocation started

vars == << messages, currentQuestion, isLoading, error,
           currentAiMessageIdRef, nextId, pending, nsub, pc, chunks,
           outcome, base, failure, status, requests, readers >>

Invocations == 1..MaxSubmits

----------------------------------------------------------------------------
\* Message ids and the functional updaters of the transcript.

\* generateId(): a string no earlier call produced; n counts the calls.
generateId(n) == [n |-> n + 1, ai |-> FALSE]

\* generateId() + '_ai'
generateAiId(n) == [n |-> n + 1, ai |-> TRUE]

\* (prev) => [...prev, { id: generateId(), sender: 'user', text }]
AppendUserMessage(prev, n, text) ==
    Append(prev, [id |-> generateId(n), sender |-> "user", text |-> text])

ContinuesLastNever(prevMessages, ref) == FALSE

\* The test of the chunk updater: the reference is set and names the last
\* message of the transcript.
ContinuesLast(prevMessages, ref) ==
    /\ ref # Null
    /\ prevMessages # <<>>
    /\ Some(prevMessages[Len(prevMessages)].id) = ref

\* The chunk updater with the text put before the message's text.
MergeChunkPrepend(prevMessages, ref, n, chunk) ==
    IF ContinuesLast(prevMessages, ref)
    THEN [messages |->
              [k \in 1..Len(prevMessages) |->
                  IF Some(prevMessages[k].id) = ref
                  THEN [prevMessages[k] EXCEPT !.text = chunk \o @]
                  ELSE prevMessages[k]],
          ref |-> ref,
          nextId |-> n]
    ELSE [messages |->
              Append(prevMessages,
                     [id |-> generateAiId(n), sender |-> "ai",
                      text |-> chunk]),
          ref |-> Some(generateAiId(n)),
          nextId |-> n + 1]

\* The chunk updater: the transcript it returns, the reference it leaves
\* and the number of ids generated after it ran.
MergeChunk(prevMessages, ref, n, chunk) ==
    IF ContinuesLast(prevMessages, ref)
    THEN [messages |->
              [k \in 1..Len(prevMessages) |->
                  IF Some(prevMessages[k].id) = ref
                  THEN [prevMessages[k] EXCEPT !.text = @ \o chunk]
                  ELSE prevMessages[k]],
          ref |-> ref,
          nextId |-> n]
    ELSE [messages |->
              Append(prevMessages,
                     [id |-> generateAiId(n), sender |-> "ai",
                      text |-> chunk]),
          ref |-> Some(generateAiId(n)),
          nextId |-> n + 1]

\* The filter that drops every assistant message.
RollbackAssistant(prev, ref) == SelectSeq(prev, LAMBDA msg : msg.sender # "ai")

RollbackNothing(prev, ref) == prev

\* (prev) => prev.filter((msg) => msg.id !== currentAiMessageIdRef.current)
Rollback(prev, ref) == SelectSeq(prev, LAMBDA msg : Some(msg.id) # ref)

SentinelErrorTextKeepsMarker(chunk) == trim(chunk)

\* setError(chunk.replace("STREAM_ERROR:", "").trim())
SentinelErrorText(chunk) == trim(replace(chunk, STREAM_ERROR, <<>>))

CatchErrorTextGeneric(message) == UnexpectedErrorMessage

\* err.message || 'Unexpected error occurred.'
CatchErrorText(message) ==
    IF message # <<>> THEN message ELSE UnexpectedErrorMessage

----------------------------------------------------------------------------
\* React state: a set-state call queues an update; a render applies the
\* queued updates in the order of the calls.  Updater functions run when
\* they are applied, and read and write the reference at that time.

Update(op, arg) == [op |-> op, arg |-> arg]

RenderedState ==
    [messages |-> messages, currentQuestion |-> currentQuestion,
     isLoading |-> isLoading, error |-> error,
     ref |-> currentAiMessageIdRef, nextId |-> nextId]

\* The state after one queued update.
Applied(st, u) ==
    CASE u.op = "appendUser" ->
            [st EXCEPT !.messages = AppendUserMessage(@, st.nextId, u.arg),
                       !.nextId = @ + 1]
      [] u.op = "mergeChunk" ->
            LET r == MergeChunk(st.messages, st.ref, st.nextId, u.arg)
            IN [st EXCEPT !.messages = r.messages, !.ref = r.ref,
                          !.nextId = r.nextId]
      [] u.op = "rollback" ->
            [st EXCEPT !.messages = Rollback(@, st.ref)]
      [] u.op = "setCurrentQuestion" -> [st EXCEPT !.currentQuestion = u.arg]
      [] u.op = "setIsLoading" -> [st EXCEPT !.isLoading = u.arg]
      [] u.op = "setError" -> [st EXCEPT !.error = u.arg]

\* Applied, with the state before the update evaluated once.
ApplyUpdate(st, u) == CHOOSE r \in {Applied(s, u) : s \in {st}} : TRUE

\* The queue applied from its last update to its first.
RECURSIVE ApplyAllReverse(_, _)
ApplyAllReverse(st, q) ==
    IF q = <<>>
    THEN st
    ELSE ApplyUpdate(ApplyAllReverse(st, Tail(q)), Head(q))

RECURSIVE ApplyAll(_, _)
ApplyAll(st, q) ==
    IF q = <<>> THEN st ELSE ApplyAll(ApplyUpdate(st, Head(q)), Tail(q))

\* The rendered state becomes st.
Commit(st) ==
    \E s \in {st} :
        /\ messages' = s.messages
        /\ currentQuestion' = s.currentQuestion
        /\ isLoading' = s.isLoading
        /\ error' = s.error
        /\ currentAiMessageIdRef' = s.ref
        /\ nextId' = s.nextId

state == << messages, currentQuestion, isLoading, error,
            currentAiMessageIdRef, nextId >>
history ==
    << nsub, pc, chunks, outcome, base, failure, status, requests, readers >>

----------------------------------------------------------------------------
\* handleSubmit, one action per stretch of code between two awaits.

Init ==
    /\ messages = <<>>
    /\ currentQuestion = <<>>
    /\ isLoading = FALSE
    /\ error = Null
    /\ currentAiMessageIdRef = Null
    /\ nextId = 0
    /\ pending = <<>>
    /\ nsub = 0
    /\ pc = [i \in Invocations |-> "idle"]
    /\ chunks = [i \in Invocations |-> <<>>]
    /\ outcome = [i \in Invocations |-> "none"]
    /\ base = [i \in Invocations |-> <<>>]
    /\ failure = [i \in Invocations |-> Null]
    /\ status = [i \in Invocations |-> Null]
    /\ requests = 0
    /\ readers = [i \in Invocations |-> 0]

\* A form that is never disabled.
FormAlwaysEnabled == TRUE

\* disabled={isLoading} on the input and on the submit button.
FormEnabled == ~isLoading

\* An update made inside a React event handler is rendered before the next
\* event is handled.
RenderNow(st, updates) ==
    /\ Commit(ApplyAll(st, pending \o updates))
    /\ pending' = <<>>

\* handleInputChange, called with value; only ahead of a submit event.
InputChange(value) ==
    /\ nsub < MaxSubmits
    /\ value # currentQuestion
    /\ RenderNow(RenderedState, <<Update("setCurrentQuestion", value)>>)
    /\ UNCHANGED history

\* handleInputChange as the enabled input calls it.
HandleInputChange(value) ==
    /\ FormEnabled
    /\ InputChange(value)

AcceptUpdatesKeepError(trimmedQuestion) ==
    << Update("appendUser", trimmedQuestion),
       Update("setCurrentQuestion", <<>>),
       Update("setIsLoading", TRUE) >>

\* The set-state calls of an accepted submission.
AcceptUpdates(trimmedQuestion) ==
    << Update("appendUser", trimmedQuestion),
       Update("setCurrentQuestion", <<>>),
       Update("setIsLoading", TRUE),
       Update("setError", Null) >>

\* A catch that also filters the current assistant message out.
CatchUpdatesRollback(message) ==
    << Update("setError", Some(CatchErrorText(message))),
       Update("rollback", Null) >>

\* catch (err) { setError(err.message || ...) }
CatchUpdates(message) == << Update("setError", Some(CatchErrorText(message))) >>

FinallyNothing == <<>>

\* finally { setIsLoading(false) }
FinallyUpdates == << Update("setIsLoading", FALSE) >>

\* The invocation ends as kind; message is the failure's, when there is one.
End(i, kind, message) ==
    /\ pc' = [pc EXCEPT ![i] = "done"]
    /\ outcome' = [outcome EXCEPT ![i] = kind]
    /\ failure' = [failure EXCEPT ![i] = message]

\* handleSubmit up to the return of the validation or to the fetch call.
Submit ==
    /\ nsub < MaxSubmits
    /\ nsub' = nsub + 1
    /\ LET i == nsub + 1
           trimmedQuestion == trim(currentQuestion)
       IN IF trimmedQuestion = <<>>
          THEN /\ RenderNow(RenderedState,
                     <<Update("setError", Some(EmptyQuestionMessage))>>)
               /\ End(i, "invalid", Null)
               /\ base' = [base EXCEPT ![i] = messages']
               /\ UNCHANGED << chunks, status, requests, readers >>
          ELSE /\ RenderNow([RenderedState EXCEPT !.ref = Null],
                            AcceptUpdates(trimmedQuestion))
               /\ pc' = [pc EXCEPT ![i] = "fetch"]
               /\ base' = [base EXCEPT ![i] = messages']
               /\ requests' = requests + 1
               /\ UNCHANGED << chunks, outcome, failure, status, readers >>

\* handleSubmit as the enabled form calls it.
HandleSubmit ==
    /\ FormEnabled
    /\ Submit

\* A rejected fetch that is issued again.
FetchRejectsRetry(i, message) ==
    /\ pc[i] = "fetch"
    /\ requests' = requests + 1
    /\ UNCHANGED << state, pending, nsub, pc, chunks, outcome, base, failure,
                    status, readers >>

\* await fetch(...) rejects: catch, finally.
FetchRejects(i, message) ==
    /\ pc[i] = "fetch"
    /\ pending' = pending \o CatchUpdates(message) \o FinallyUpdates
    /\ End(i, "fetch", Some(message))
    /\ UNCHANGED << state, nsub, chunks, base, status, requests, readers >>

ThrowsNever(ok) == FALSE

\* if (!response.ok) throw new Error("Server responded with an error")
Throws(ok) == ~ok

\* await fetch(...) resolves: the response.ok test, then getReader().
FetchResolves(i, ok) ==
    /\ pc[i] = "fetch"
    /\ status' = [status EXCEPT ![i] = Some(ok)]
    /\ IF ~Throws(ok)
       THEN /\ pc' = [pc EXCEPT ![i] = "read"]
            /\ readers' = [readers EXCEPT ![i] = @ + 1]
            /\ UNCHANGED << pending, outcome, failure >>
       ELSE /\ pending' = pending \o CatchUpdates(ServerErrorMessage)
                                  \o FinallyUpdates
            /\ End(i, "status", Some(ServerErrorMessage))
            /\ UNCHANGED readers
    /\ UNCHANGED << state, nsub, chunks, base, requests >>

\* The set-state calls the loop body makes for one decoded chunk.
ChunkUpdates(chunk) ==
    IF startsWith(chunk, STREAM_ERROR)
    THEN << Update("setError", Some(SentinelErrorText(chunk))),
            Update("rollback", Null) >>
    ELSE << Update("mergeChunk", chunk) >>

\* The loop body ends in break.
Breaks(chunk) == startsWith(chunk, STREAM_ERROR)

\* Number of chunks the invocations 1..i have decoded.
RECURSIVE Delivered(_)
Delivered(i) == IF i = 0 THEN 0 ELSE Len(chunks[i]) + Delivered(i - 1)

\* await reader.read() resolves with a chunk: one pass of the loop body.
ReadChunk(i, chunk) ==
    /\ pc[i] = "read"
    /\ Delivered(MaxSubmits) < MaxChunks
    /\ chunks' = [chunks EXCEPT ![i] = Append(@, chunk)]
    /\ IF Breaks(chunk)
       THEN /\ pending' = pending \o ChunkUpdates(chunk) \o FinallyUpdates
            /\ End(i, "sentinel", Null)
       ELSE /\ pending' = pending \o ChunkUpdates(chunk)
            /\ UNCHANGED << pc, outcome, failure >>
    /\ UNCHANGED << state, nsub, base, status, requests, readers >>

\* await reader.read() resolves with done: break, finally.
ReadDone(i) ==
    /\ pc[i] = "read"
    /\ pending' = pending \o FinallyUpdates
    /\ End(i, "eos", Null)
    /\ UNCHANGED << state, nsub, chunks, base, status, requests, readers >>

\* await reader.read() rejects: catch, finally.
ReadRejects(i, message) ==
    /\ pc[i] = "read"
    /\ pending' = pending \o CatchUpdates(message) \o FinallyUpdates
    /\ End(i, "read", Some(message))
    /\ UNCHANGED << state, nsub, chunks, base, status, requests, readers >>

\* React renders: the queued updates are applied in order.
Render ==
    /\ pending # <<>>
    /\ Commit(ApplyAll(RenderedState, pending))
    /\ pending' = <<>>
    /\ UNCHANGED history

Next ==
    \/ \E value \in Inputs : HandleInputChange(value)
    \/ HandleSubmit
    \/ \E i \in Invocations, message \in FailureMessages :
           FetchRejects(i, message)
    \/ \E i \in Invocations, ok \in BOOLEAN : FetchResolves(i, ok)
    \/ \E i \in Invocations, chunk \in Chunks : ReadChunk(i, chunk)
    \/ \E i \in Invocations : ReadDone(i)
    \/ \E i \in Invocations, message \in FailureMessages :
           ReadRejects(i, message)
    \/ Render

Spec == Init /\ [][Next]_vars

\* A queued update is eventually rendered.
FairSpec == Spec /\ WF_vars(Render)

\* The handlers called whether the form is enabled or not: handleSubmit
\* and handleInputChange do not test the loading flag.
OverlapNext ==
    \/ \E value \in Inputs : InputChange(value)
    \/ Submit
    \/ \E i \in Invocations, message \in FailureMessages :
           FetchRejects(i, message)
    \/ \E i \in Invocations, ok \in BOOLEAN : FetchResolves(i, ok)
    \/ \E i \in Invocations, chunk \in Chunks : ReadChunk(i, chunk)
    \/ \E i \in Invocations : ReadDone(i)
    \/ \E i \in Invocations, message \in FailureMessages :
           ReadRejects(i, message)
    \/ Render

OverlapSpec == Init /\ [][OverlapNext]_vars

----------------------------------------------------------------------------
\* Vocabulary of the properties.

RECURSIVE Concat(_)
Concat(cs) == IF cs = <<>> THEN <<>> ELSE Head(cs) \o Concat(Tail(cs))

\* i is the latest submission and every update it queued is rendered.
Settled(i) == i = nsub /\ pending = <<>>

\* {error && (...)}: the error area is rendered only for a non-empty text.
ErrorShown == error # Null /\ error # Some(<<>>)

\* Some chunk invocation i decoded starts with the sentinel.
HasSentinel(i) ==
    \E k \in 1..Len(chunks[i]) : startsWith(chunks[i][k], STREAM_ERROR)

\* The id of the first assistant message created after submission i was
\* accepted: the id generated right after the one of its user message.
FirstAiId(i) == generateAiId(base[i][Len(base[i])].id.n)

LastMessage == messages[Len(messages)]

----------------------------------------------------------------------------
\* C1: when the latest submission was read to the end of the stream and
\* delivered at least one chunk, none starting with the sentinel, the
\* transcript is the transcript at submission followed by one assistant
\* message whose text is the concatenation of the chunks in arrival order.
C1_TextIsConcatenation ==
    \A i \in Invocations :
        (Settled(i) /\ outcome[i] = "eos" /\ chunks[i] # <<>>)
            => /\ Len(messages) = Len(base[i]) + 1
               /\ LastMessage.sender = "ai"
               /\ LastMessage.text = Concat(chunks[i])

\* Two different chunks were concatenated.
C1_Witness ==
    \E i \in Invocations :
        /\ Settled(i) /\ outcome[i] = "eos"
        /\ Len(chunks[i]) >= 2
        /\ chunks[i][1] # chunks[i][2]
        /\ LastMessage.text = Concat(chunks[i])

\* C2: while the latest submission is being read, or was read without a
\* sentinel, and its updates are rendered: no chunk adds no message; one or
\* more chunks add exactly one assistant message, at the end of the
\* transcript, and it is the message the first chunk created.
C2_OneAssistantMessage ==
    \A i \in Invocations :
        (Settled(i) /\ ~HasSentinel(i)
                    /\ (pc[i] = "read" \/ outcome[i] \in {"eos", "read"}))
            => IF chunks[i] = <<>>
               THEN messages = base[i]
               ELSE /\ Len(messages) = Len(base[i]) + 1
                    /\ SubSeq(messages, 1, Len(base[i])) = base[i]
                    /\ LastMessage.sender = "ai"
                    /\ LastMessage.id = FirstAiId(i)
                    /\ currentAiMessageIdRef = Some(FirstAiId(i))

\* A third chunk was merged into the message of the first.
C2_Witness ==
    \E i \in Invocations :
        /\ Settled(i) /\ pc[i] = "read" /\ Len(chunks[i]) = 3
        /\ Len(messages) = Len(base[i]) + 1
        /\ LastMessage.id = FirstAiId(i)

\* s without its first Len(p) characters.
RemovePrefix(s, p) == SubSeq(s, Len(p) + 1, Len(s))

\* s is empty or made of whitespace only.
IsBlank(s) == \A k \in 1..Len(s) : IsSpace(s[k])

\* The first chunk of the latest submission started with the sentinel, and
\* the updates are rendered.
FirstChunkIsSentinel(i) ==
    /\ Settled(i)
    /\ chunks[i] # <<>>
    /\ startsWith(chunks[i][1], STREAM_ERROR)

\* C3 as stated: when the first chunk starts with the sentinel, the
\* transcript gets no assistant message and the error text is the chunk
\* without the prefix.
C3_ErrorIsChunkWithoutPrefix ==
    \A i \in Invocations :
        FirstChunkIsSentinel(i)
            => /\ messages = base[i]
               /\ error = Some(RemovePrefix(chunks[i][1], STREAM_ERROR))

\* C3, amended: when the first chunk starts with the sentinel, the
\* transcript gets no assistant message and the error text is the chunk
\* without the prefix and without its leading and trailing whitespace.
C3_ErrorIsTrimmedChunkWithoutPrefix ==
    \A i \in Invocations :
        FirstChunkIsSentinel(i)
            => /\ messages = base[i]
               /\ error = Some(trim(RemovePrefix(chunks[i][1], STREAM_ERROR)))

\* A sentinel with text after it came first, after an earlier turn that
\* left an assistant message.
C3_Witness ==
    \E i \in Invocations :
        /\ FirstChunkIsSentinel(i)
        /\ Len(chunks[i][1]) > Len(STREAM_ERROR)
        /\ error = Some(<<"x">>)
        /\ \E k \in 1..Len(messages) : messages[k].sender = "ai"

\* C4: once the latest submission decoded a sentinel chunk after one or
\* more other chunks, it decodes no further chunk, and whenever its updates
\* are rendered the transcript is the transcript at submission: the
\* assistant message is gone, the question and the earlier turns are as
\* they were.
C4_SentinelRollsBack ==
    [][ \A i \in Invocations :
          (i = nsub /\ nsub' = nsub /\ HasSentinel(i) /\ Len(chunks[i]) >= 2)
              => /\ chunks'[i] = chunks[i]
                 /\ pending' = <<>> => messages' = base[i] ]_vars

\* A merged chunk was rolled back, after an earlier turn that left an
\* assistant message.
C4_Witness ==
    \E i \in Invocations :
        /\ Settled(i) /\ HasSentinel(i) /\ Len(chunks[i]) = 2
        /\ messages = base[i]
        /\ \E k \in 1..Len(messages) : messages[k].sender = "ai"
        /\ nextId > Len(messages)

\* C5: a submit event with an empty or whitespace-only input leaves the
\* transcript, the loading flag, the input text and the number of requests
\* as they were, and sets the validation error.
C5_BlankSubmit ==
    [][ (nsub' = nsub + 1 /\ IsBlank(currentQuestion))
            => /\ messages' = messages
               /\ error' = Some(EmptyQuestionMessage)
               /\ requests' = requests
               /\ isLoading' = isLoading
               /\ currentQuestion' = currentQuestion ]_vars

\* A whitespace-only input was submitted after an accepted question.
C5_Witness ==
    /\ nsub = 2 /\ outcome[2] = "invalid"
    /\ currentQuestion = <<" ", " ">>
    /\ error = Some(EmptyQuestionMessage)
    /\ messages # <<>> /\ requests = 1

\* C6: when the response of the latest submission has a non-success
\* status, the submission has ended without starting a read loop or
\* decoding a chunk, and once its updates are rendered the transcript is
\* the transcript at submission and the error is the generic message.
C6_BadStatusFails ==
    \A i \in Invocations :
        (i = nsub /\ status[i] = Some(FALSE))
            => /\ pc[i] = "done"
               /\ readers[i] = 0
               /\ chunks[i] = <<>>
               /\ pending = <<>>
                    => messages = base[i] /\ error = Some(ServerErrorMessage)

\* A non-success status was reported and rendered.
C6_Witness ==
    \E i \in Invocations :
        /\ Settled(i) /\ status[i] = Some(FALSE)
        /\ error = Some(ServerErrorMessage)
        /\ messages = base[i] /\ ~isLoading

\* The ways a submission that issued a request ends.
Endings == {"eos", "sentinel", "status", "fetch", "read"}

\* C7: the loading flag is true while an accepted submission waits for its
\* response or reads it; once the latest submission has ended, whichever
\* way, the flag eventually is false; and it is false whenever the updates
\* of the ended submission are rendered.
C7_LoadingReturns ==
    /\ [](\A i \in Invocations : pc[i] \in {"fetch", "read"} => isLoading)
    /\ \A i \in Invocations :
           (i = nsub /\ pc[i] = "done" /\ outcome[i] \in Endings)
               ~> ~isLoading
    /\ [](\A i \in Invocations :
              (Settled(i) /\ pc[i] = "done") => ~isLoading)

\* A read failed after a chunk was merged, and the flag is false again.
C7_Witness ==
    \E i \in Invocations :
        /\ Settled(i) /\ outcome[i] = "read" /\ chunks[i] # <<>>
        /\ ~isLoading

\* The latest submission ended in a rejected fetch or a rejected read.
TransportFailed(i) == i = nsub /\ outcome[i] \in {"fetch", "read"}

\* C8 as stated: after a rejected fetch or read, the rendered error is the
\* failure's message text.
C8_ErrorIsFailureMessage ==
    \A i \in Invocations :
        (TransportFailed(i) /\ pending = <<>>) => error = failure[i]

\* C8, amended: once the latest submission ended in a rejected fetch or
\* read, it decodes no further chunk, and whenever its updates are rendered
\* the error is the failure's message text, or 'Unexpected error occurred.'
\* when that text is empty or missing.
C8_TransportFailure ==
    [][ \A i \in Invocations :
          (TransportFailed(i) /\ nsub' = nsub)
              => /\ chunks'[i] = chunks[i]
                 /\ pc'[i] = "done"
                 /\ pending' = <<>>
                      => error' = IF failure[i] = Some(<<>>)
                                  THEN Some(UnexpectedErrorMessage)
                                  ELSE failure[i] ]_vars

\* A read failed with a message after a chunk was merged, and the message
\* is displayed.
C8_Witness ==
    \E i \in Invocations :
        /\ Settled(i) /\ outcome[i] = "read" /\ chunks[i] # <<>>
        /\ failure[i] # Some(<<>>)
        /\ error = failure[i]

\* C9: when the latest submission ended at the end of the stream, the error
\* is null, whatever error was displayed when the question was submitted.
C9_EndOfStreamNoError ==
    \A i \in Invocations :
        (i = nsub /\ outcome[i] = "eos") => pc[i] = "done" /\ error = Null

\* The stream of the second submission ended after the first submission
\* had ended in an error.
C9_Witness ==
    /\ nsub = 2 /\ Settled(2)
    /\ outcome[1] \in {"invalid", "sentinel", "status", "fetch", "read"}
    /\ outcome[2] = "eos"
    /\ error = Null

\* The submissions that passed the validation.
Accepted == {i \in 1..nsub : outcome[i] # "invalid"}

\* C10: the number of requests issued is the number of accepted
\* submissions, whatever way they ended, and an accepted submission starts
\* at most one read loop, the others none.
C10_OneRequestPerSubmission ==
    /\ requests = Cardinality(Accepted)
    /\ \A i \in Invocations :
           readers[i] <= (IF i \in Accepted THEN 1 ELSE 0)

\* Two submissions were accepted; the first ended in a rejected fetch.
C10_Witness ==
    /\ nsub = 2 /\ Settled(2)
    /\ outcome[1] = "fetch" /\ outcome[2] \in Endings
    /\ requests = 2 /\ readers[2] = 1

----------------------------------------------------------------------------
\* The transitions of the position of a submission: Idle is "idle" and
\* "done", Sending is "fetch", Streaming is "read".

\* From pc[i] to pc'[i] is one of the transitions from, to.
Moves(i, from, to) == pc[i] = from /\ pc'[i] = to

\* C11 as stated: a submission moves only from Idle to Sending, from
\* Sending to Streaming, and from Streaming to Idle.
C11_OnlyStatedTransitions ==
    [][ \A i \in Invocations :
          pc'[i] # pc[i]
              => \/ Moves(i, "idle", "fetch")
                 \/ Moves(i, "fetch", "read")
                 \/ Moves(i, "read", "done") ]_vars

\* C11, amended: a submission moves from Idle to Sending on an accepted
\* submit, or from Idle straight to Idle with the validation error on a
\* blank one; from Sending to Streaming when the response arrives with a
\* success status, or from Sending straight to Idle with an error when the
\* fetch rejects or the status is non-success; from Streaming to Idle at
\* the end of the stream, on a sentinel or on a rejected read.  There is no
\* other transition.
C11_Transitions ==
    [][ \A i \in Invocations :
          pc'[i] # pc[i]
              => \/ (Moves(i, "idle", "fetch") /\ nsub' = i)
                 \/ (Moves(i, "idle", "done") /\ nsub' = i
                        /\ outcome'[i] = "invalid")
                 \/ (Moves(i, "fetch", "read") /\ status'[i] = Some(TRUE))
                 \/ (Moves(i, "fetch", "done") /\ outcome'[i] = "fetch"
                        /\ status'[i] = Null)
                 \/ (Moves(i, "fetch", "done") /\ outcome'[i] = "status"
                        /\ status'[i] = Some(FALSE))
                 \/ (Moves(i, "read", "done") /\ outcome'[i] = "sentinel"
                        /\ HasSentinel(i)')
                 \/ (Moves(i, "read", "done")
                        /\ outcome'[i] \in {"eos", "read"}
                        /\ ~HasSentinel(i)') ]_vars

\* A submission left Sending for Idle with an error, without a read loop.
C11_Witness ==
    \E i \in Invocations :
        /\ Settled(i) /\ outcome[i] = "status" /\ readers[i] = 0
        /\ error = Some(ServerErrorMessage) /\ ~isLoading

----------------------------------------------------------------------------
\* The steps of the transcript.

\* s is a proper or improper prefix of t.
IsPrefix(s, t) == Len(s) <= Len(t) /\ SubSeq(t, 1, Len(s)) = s

\* The transcript gets one message at its end.
AppendsOne == Len(messages') = Len(messages) + 1 /\ IsPrefix(messages, messages')

\* The text of the last message, an assistant message, grows at its end;
\* nothing else changes.
ExtendsLast ==
    /\ messages # <<>>
    /\ Len(messages') = Len(messages)
    /\ LastMessage.sender = "ai"
    /\ IsPrefix(LastMessage.text, messages'[Len(messages)].text)
    /\ messages' = [messages EXCEPT ![Len(messages)].text =
                        messages'[Len(messages)].text]

\* The last message, the assistant message of the response being read, is
\* dropped after that response delivered a sentinel; nothing else changes.
RemovesCurrent ==
    /\ messages # <<>>
    /\ messages' = SubSeq(messages, 1, Len(messages) - 1)
    /\ LastMessage.sender = "ai"
    /\ Some(LastMessage.id) = currentAiMessageIdRef
    /\ HasSentinel(nsub)

\* C12 as stated: every step leaves the transcript as it is, appends one
\* message, or extends the text of the last assistant message.
C12_AppendOnly ==
    [][ messages' = messages \/ AppendsOne \/ ExtendsLast ]_vars

\* C12, amended: every step leaves the transcript as it is, appends one
\* message, extends the text of the last assistant message, or, after a
\* sentinel, removes the assistant message of the response being read,
\* which is the last one.  No other message is removed, reordered or
\* changed.
C12_AppendOnlyButRollback ==
    [][ messages' = messages \/ AppendsOne \/ ExtendsLast
            \/ RemovesCurrent ]_vars

\* An assistant message was created and removed, behind an earlier turn
\* that had left one.
C12_Witness ==
    \E i \in Invocations :
        /\ Settled(i) /\ HasSentinel(i) /\ Len(chunks[i]) = 2
        /\ messages = base[i] /\ Len(messages) = 3
        /\ messages[2].sender = "ai"
        /\ nextId = 4

----------------------------------------------------------------------------
\* The order of the transcript updates.

\* The state once the queued updates are applied.
AfterRender == ApplyAll(RenderedState, pending)

\* The transcript of submission i after the chunks cs: the transcript at
\* submission, followed by the assistant message of the response unless cs
\* is empty or contains a sentinel chunk.
TranscriptAfter(i, cs) ==
    IF cs = <<>> \/ \E k \in 1..Len(cs) : startsWith(cs[k], STREAM_ERROR)
    THEN base[i]
    ELSE Append(base[i],
                [id |-> FirstAiId(i), sender |-> "ai", text |-> Concat(cs)])

\* The updater of an earlier chunk is still queued.
ChunkUpdateQueued == \E k \in 1..Len(pending) : pending[k].op = "mergeChunk"

\* C13 as stated: when a submission processes a chunk after its first, the
\* transcript update of the chunk before has been applied.
C13_UpdateAppliedBeforeNextChunk ==
    [][ \A i \in Invocations :
          (chunks'[i] # chunks[i] /\ chunks[i] # <<>>)
              => ~ChunkUpdateQueued ]_vars

\* C13, amended: the updaters of the chunks are applied in arrival order,
\* each on the transcript and the reference the one before left, though
\* possibly after later chunks were processed: while the latest submission
\* is read and after it, the rendered transcript is the transcript after
\* the first k chunks for some k, and the queued updates bring it to the
\* transcript after all the chunks, with the reference on the message of
\* the response.
C13_UpdatesInArrivalOrder ==
    \A i \in Invocations :
        (i = nsub /\ readers[i] = 1)
            => /\ \E k \in 0..Len(chunks[i]) :
                      messages = TranscriptAfter(i, SubSeq(chunks[i], 1, k))
               /\ AfterRender.messages = TranscriptAfter(i, chunks[i])
               /\ (chunks[i] # <<>> /\ ~HasSentinel(i))
                      => AfterRender.ref = Some(FirstAiId(i))

\* Two chunks were processed before the updater of the first was applied.
C13_Witness ==
    \E i \in Invocations :
        /\ i = nsub /\ pc[i] = "read" /\ Len(chunks[i]) = 2
        /\ Len(pending) = 2
        /\ pending[1].op = "mergeChunk" /\ pending[2].op = "mergeChunk"
        /\ messages = base[i]

----------------------------------------------------------------------------
\* Submissions in progress.

\* The submissions that wait for their response or read it.
InProgress == {i \in Invocations : pc[i] \in {"fetch", "read"}}

----------------------------------------------------------------------------
\* Overlapping submissions.

\* The texts made of consecutive chunks of response i, in arrival order.
RunsOf(i) ==
    {Concat(SubSeq(chunks[i], a, b)) :
        a \in 1..(Len(chunks[i]) + 1), b \in 0..Len(chunks[i])}

\* Message k of the transcript is made of chunks of response i only.
FromOneResponse(k, i) == messages[k].text \in RunsOf(i)

\* C15: with handleSubmit called while an earlier response is read, once
\* the queued updates are rendered every assistant message is made of
\* chunks of one response, in their arrival order, and every response that
\* delivered chunks and no sentinel has an assistant message made of its
\* chunks in the transcript.
C15_MessagesOfOneResponse ==
    pending = <<>>
        => /\ \A k \in 1..Len(messages) :
                 messages[k].sender = "ai"
                     => \E i \in 1..nsub : FromOneResponse(k, i)
           /\ \A i \in 1..nsub :
                 (chunks[i] # <<>> /\ ~HasSentinel(i))
                     => \E k \in 1..Len(messages) :
                            /\ messages[k].sender = "ai"
                            /\ FromOneResponse(k, i)

----------------------------------------------------------------------------
\* C16: when a read of the latest submission was rejected after one or more
\* chunks, and the updates are rendered, the transcript is the transcript
\* at submission followed by the assistant message with the concatenation
\* of the chunks, and the error is the one of the failure; and the message
\* of a response that delivered chunks is absent from the rendered
\* transcript only if one of them was a sentinel.
C16_ReadFailureKeepsPartial ==
    \A i \in Invocations :
        /\ (Settled(i) /\ outcome[i] = "read" /\ chunks[i] # <<>>)
               => /\ messages =
                         Append(base[i], [id |-> FirstAiId(i), sender |-> "ai",
                                          text |-> Concat(chunks[i])])
                  /\ error = IF failure[i] = Some(<<>>)
                             THEN Some(UnexpectedErrorMessage)
                             ELSE failure[i]
        /\ (Settled(i) /\ chunks[i] # <<>> /\ messages = base[i])
               => HasSentinel(i)

\* A read was rejected after two chunks; their text and the failure's
\* message are displayed.
C16_Witness ==
    \E i \in Invocations :
        /\ Settled(i) /\ outcome[i] = "read" /\ Len(chunks[i]) = 2
        /\ Len(messages) = Len(base[i]) + 1
        /\ LastMessage.text = Concat(chunks[i])
        /\ error = Some(<<"d", "o", "w", "n">>)

----------------------------------------------------------------------------
\* C17: with the updates rendered, the error area shows nothing while the
\* latest submission waits for its response or reads it, and once the
\* latest submission has ended it shows a text if and only if the
\* submission ended in a validation error, a non-success status, a
\* sentinel or a rejected fetch or read.
C17_ErrorSlotReflectsLatest ==
    \A i \in Invocations :
        Settled(i) =>
            /\ pc[i] \in {"fetch", "read"} => ~ErrorShown
            /\ pc[i] = "done" =>
                   (ErrorShown <=>
                        outcome[i] \in {"invalid", "status", "sentinel",
                                        "fetch", "read"})

====
